---- MODULE Spec2Model ----
(***************************************************************************)
(* LensSim: the lens-assembly ray-transport engine of src/src/lens-system.h *)
(* (class LensSystem: constructor, loadJSON, raytrace,                      *)
(* computeCardinalPoints) and its helpers reflect and refract.              *)
(*                                                                          *)
(* Real numbers are exact rationals <<num, den>> (den > 0, lowest terms);   *)
(* vectors are the meridional (y, z) part of a Vec3.  Inputs are drawn so   *)
(* that every square root refract takes is exact.                           *)
(***************************************************************************)
EXTENDS Integers, Sequences, FiniteSets, TLC

(* ------------------------------ bounds --------------------------------- *)
MaxElems  == 2      \* entries in a prescription
MaxVisits == 4      \* loop iterations of one raytrace call that are explored

(* --------------------------- exact rationals --------------------------- *)
Abs(x) == IF x < 0 THEN -x ELSE x

RECURSIVE Gcd(_, _)
Gcd(a, b) == IF b = 0 THEN a ELSE Gcd(b, a % b)

Rat(n, d) ==
    LET g == Gcd(Abs(n), Abs(d))
        s == IF d < 0 THEN -1 ELSE 1
    IN  << (s * n) \div g, (s * d) \div g >>

R0 == << 0, 1 >>
R1 == << 1, 1 >>

\* the operands are reduced against each other first, so that no
\* intermediate product is larger than the result needs
RAdd(a, b) ==
    LET g == Gcd(a[2], b[2])
    IN  Rat(a[1] * (b[2] \div g) + b[1] * (a[2] \div g), (a[2] \div g) * b[2])
RNeg(a)    == << -a[1], a[2] >>
RSub(a, b) == RAdd(a, RNeg(b))
RMul(a, b) ==
    LET g1 == Gcd(Abs(a[1]), b[2])
        g2 == Gcd(Abs(b[1]), a[2])
    IN  << (a[1] \div g1) * (b[1] \div g2), (a[2] \div g2) * (b[2] \div g1) >>
RInv(a)    == IF a[1] < 0 THEN << -a[2], -a[1] >> ELSE << a[2], a[1] >>
RDiv(a, b) == RMul(a, RInv(b))
RLt(a, b)  ==
    LET g == Gcd(a[2], b[2]) IN a[1] * (b[2] \div g) < b[1] * (a[2] \div g)
RLe(a, b)  == ~RLt(b, a)
RMax(a, b) == IF RLt(a, b) THEN b ELSE a
RAbs(a)    == << Abs(a[1]), a[2] >>

\* the largest r in lo .. hi with r * r <= n
RECURSIVE SqrtSearch(_, _, _)
SqrtSearch(n, lo, hi) ==
    IF lo >= hi THEN lo
    ELSE LET mid == (lo + hi + 1) \div 2
         IN  IF mid * mid <= n THEN SqrtSearch(n, mid, hi) ELSE SqrtSearch(n, lo, mid - 1)
ISqrt(n) == SqrtSearch(n, 0, IF n < 46340 THEN n ELSE 46340)
IsSquare(n) == n >= 0 /\ ISqrt(n) * ISqrt(n) = n

RIsSquare(a) == IsSquare(a[1]) /\ IsSquare(a[2])
RSqrt(a)     == << ISqrt(a[1]), ISqrt(a[2]) >>

(* ------------------------------ vectors -------------------------------- *)
Vec(y, z)    == [y |-> y, z |-> z]
dot(a, b)    == RAdd(RMul(a.y, b.y), RMul(a.z, b.z))
VNeg(a)      == Vec(RNeg(a.y), RNeg(a.z))
VAdd(a, b)   == Vec(RAdd(a.y, b.y), RAdd(a.z, b.z))
VScale(k, a) == Vec(RMul(k, a.y), RMul(k, a.z))

Ray(o, d) == [origin |-> o, direction |-> d]
\* Ray::operator()(t)
RayAt(r, t) == VAdd(r.origin, VScale(t, r.direction))

(* reflect(v, n) = -v + 2 dot(v, n) n *)
reflect(v, n) == VAdd(VNeg(v), VScale(RMul(<< 2, 1 >>, dot(v, n)), n))

(* refract(wi, wt, n, ior1, ior2): ok is the return value, wt the output   *)
(* parameter (written only on success).                                    *)
Sin2ThetaT(wi, n, ior1, ior2) ==
    LET eta        == RDiv(ior1, ior2)
        cosThetaI  == dot(wi, n)
        sin2ThetaI == RMax(R0, RSub(R1, RMul(cosThetaI, cosThetaI)))
    IN  RMul(RMul(eta, eta), sin2ThetaI)

refract(wi, n, ior1, ior2) ==
    LET eta        == RDiv(ior1, ior2)
        cosThetaI  == dot(wi, n)
        sin2ThetaT == Sin2ThetaT(wi, n, ior1, ior2)
    IN  IF RLe(R1, sin2ThetaT)
        THEN [ok |-> FALSE, wt |-> VNeg(wi)]
        ELSE LET cosThetaT == RSqrt(RSub(R1, sin2ThetaT))
             IN  [ok |-> TRUE,
                  wt |-> VAdd(VScale(eta, VNeg(wi)),
                              VScale(RSub(RMul(eta, cosThetaI), cosThetaT), n))]

\* the inputs on which the square root of refract is exact
RefractExact(wi, n, ior1, ior2) ==
    LET s == Sin2ThetaT(wi, n, ior1, ior2)
    IN  RLe(R1, s) \/ RIsSquare(RSub(R1, s))

(* values that may be non-finite (a division by zero): den = 0 *)
NonFinite == << 0, 0 >>
IsFinite(a) == a[2] # 0
FDiv(a, b) == IF IsFinite(a) /\ IsFinite(b) /\ b[1] # 0 THEN RDiv(a, b) ELSE NonFinite
FMul(a, b) == IF IsFinite(a) /\ IsFinite(b) THEN RMul(a, b) ELSE NonFinite
FAdd(a, b) == IF IsFinite(a) /\ IsFinite(b) THEN RAdd(a, b) ELSE NonFinite
FSub(a, b) == IF IsFinite(a) /\ IsFinite(b) THEN RSub(a, b) ELSE NonFinite
FNeg(a)    == IF IsFinite(a) THEN RNeg(a) ELSE NonFinite

(* ------------------------- prescription inputs ------------------------- *)
Milli == << 1, 1000 >>                       \* 1e-3f
Half  == << 1, 2 >>                          \* 0.5f

IndexValues     == 0 .. (MaxElems - 1)
CurvatureValues == {0, 50}                   \* mm; 0 marks an aperture stop
ThicknessValues == {3, 6}                    \* mm
EtaValues       == {R1, << 4, 3 >>}
DiameterValues  == {30}                      \* mm

Entries ==
    [index : IndexValues, curvature_radius : CurvatureValues,
     thickness : ThicknessValues, eta : EtaValues,
     aperture_diameter : DiameterValues]

Prescriptions == UNION {[1 .. n -> Entries] : n \in 1 .. MaxElems}

\* the prescriptions that number their n entries 0 .. n-1, in any file order
Numbered ==
    {js \in Prescriptions : {js[i].index : i \in 1 .. Len(js)} = 0 .. (Len(js) - 1)}

(* ------------------------------ elements ------------------------------- *)
\* Aperture(index, aperture_radius, thickness); z = 0 until the constructor sets it
Aperture(index, aperture_radius, thickness) ==
    [kind |-> "Aperture", index |-> index, aperture_radius |-> aperture_radius,
     thickness |-> thickness, z |-> R0, curvature_radius |-> R0, ior |-> R0]

\* Lens(index, aperture_radius, thickness, curvature_radius, ior)
Lens(index, aperture_radius, thickness, curvature_radius, ior) ==
    [kind |-> "Lens", index |-> index, aperture_radius |-> aperture_radius,
     thickness |-> thickness, z |-> R0, curvature_radius |-> curvature_radius,
     ior |-> ior]

\* one iteration of the push loop of loadJSON: unit conversion and classification
MakeElement(value) ==
    LET index            == value.index
        curvature_radius == RMul(<< value.curvature_radius, 1 >>, Milli)
        thickness        == RMul(<< value.thickness, 1 >>, Milli)
        ior              == value.eta
        aperture_radius  == RMul(RMul(Half, << value.aperture_diameter, 1 >>), Milli)
    IN  IF curvature_radius = R0
        THEN Aperture(index, aperture_radius, thickness)
        ELSE Lens(index, aperture_radius, thickness, curvature_radius, ior)

Pushed(js) == [i \in 1 .. Len(js) |-> MakeElement(js[i])]

\* the comparator of std::sort
IndexLess(x1, x2) == x1.index < x2.index

\* std::sort is not stable: every arrangement of the pushed elements in which
\* no element is ordered before one that compares less than it
SortedArrangements(s) ==
    LET n == Len(s)
        Perms == {p \in [1 .. n -> 1 .. n] : \A i, j \in 1 .. n : i # j => p[i] # p[j]}
    IN  {[i \in 1 .. n |-> s[p[i]]] : p \in
            {q \in Perms : \A i, j \in 1 .. n : i < j => ~IndexLess(s[q[j]], s[q[i]])}}

\* loadJSON: ok is the return value, elements the member it leaves behind
loadJSON(js, opens) ==
    IF ~opens
    THEN {[ok |-> FALSE, elements |-> << >>]}
    ELSE {[ok |-> TRUE, elements |-> e] : e \in SortedArrangements(Pushed(js))}

\* the constructor's pass over rbegin..rend: length accumulates from the last
\* element, and each element's z is set to -length
RECURSIVE LengthFrom(_, _)
LengthFrom(es, i) ==
    IF i > Len(es) THEN R0 ELSE RAdd(LengthFrom(es, i + 1), es[i].thickness)

\* a z pass that accumulates from the first element instead of the last
AssignZ_FromFront(es) ==
    [i \in 1 .. Len(es) |->
        [es[i] EXCEPT !.z = RNeg(RSub(RAdd(LengthFrom(es, 1), es[i].thickness),
                                      LengthFrom(es, i)))]]

AssignZ(es) == [i \in 1 .. Len(es) |-> [es[i] EXCEPT !.z = RNeg(LengthFrom(es, i))]]

(* ------------------- element intersection capability ------------------- *)
\* the point where the ray meets the plane z = element.z, inside the clear radius
PlaneHit(element, r) ==
    IF r.direction.z = R0
    THEN [ok |-> FALSE, hitPos |-> r.origin]
    ELSE LET t == RDiv(RSub(element.z, r.origin.z), r.direction.z)
             p == RayAt(r, t)
         IN  IF RLt(t, R0) \/ RLt(element.aperture_radius, RAbs(p.y))
             THEN [ok |-> FALSE, hitPos |-> r.origin]
             ELSE [ok |-> TRUE, hitPos |-> p]

AxisNormal == Vec(R0, << -1, 1 >>)

\* the normal of a surface, turned to face the arriving ray
alignNormal(d, n) == IF RLt(dot(VNeg(d), n), R0) THEN VNeg(n) ELSE n

\* Aperture::intersect
ApertureIntersect(element, r) ==
    LET h == PlaneHit(element, r)
    IN  [ok |-> h.ok, hitPos |-> h.hitPos, hitNormal |-> AxisNormal]

\* the surface normals a Lens surface presents to a ray
SurfaceNormals ==
    {AxisNormal,
     Vec(<< -3, 5 >>, << -4, 5 >>),
     Vec(<< -4, 5 >>, << -3, 5 >>),
     Vec(<< -4, 5 >>, << 3, 5 >>)}

NoHit == [ok |-> FALSE, hitPos |-> Vec(R0, R0), hitNormal |-> AxisNormal]

\* Lens::intersect: the results the surface can give for the ray.  A surface
\* met a second time at a point it was met before presents the same normal
\* (rec.set): the geometry of the element is fixed.
LensIntersect(element, r, rec) ==
    LET h == PlaneHit(element, r)
    IN  IF ~h.ok
        THEN {NoHit}
        ELSE IF rec.set /\ rec.hitPos = h.hitPos
        THEN {[ok |-> TRUE, hitPos |-> h.hitPos,
               hitNormal |-> alignNormal(r.direction, rec.hitNormal)]}
        ELSE {NoHit} \cup
             {[ok |-> TRUE, hitPos |-> h.hitPos,
               hitNormal |-> alignNormal(r.direction, n)] : n \in SurfaceNormals}

(* ---------------------------- raytrace parts --------------------------- *)
\* line 119: the index the walk starts from (0-based, as in the source)
StartIndex(r, es) == IF RLt(R0, r.direction.z) THEN -1 ELSE Len(es)

\* line 125: update element index
AdvanceIndex(idx, r) == idx + (IF RLt(R0, r.direction.z) THEN 1 ELSE -1)

\* line 126: the walk has run past an end of the stack
PastEnd(idx, es) == idx < 0 \/ idx >= Len(es)

\* a next-element lookup that peeks one element ahead in both directions
NextIor_Ahead(idx, r, es) ==
    LET next_element_index == IF RLt(R0, r.direction.z) THEN idx + 1 ELSE idx - 1
    IN  IF next_element_index >= 0 /\ next_element_index < Len(es)
        THEN IF es[next_element_index + 1].kind = "Lens"
             THEN es[next_element_index + 1].ior
             ELSE R1
        ELSE R1

\* lines 144-157: Compute Next Element IOR (idx is the 0-based element index)
NextIor(idx, r, es) ==
    LET next_element_index == IF RLt(R0, r.direction.z) THEN idx ELSE idx - 1
    IN  IF next_element_index >= 0
        THEN IF es[next_element_index + 1].kind = "Lens"
             THEN es[next_element_index + 1].ior
             ELSE R1
        ELSE R1

\* an aperture branch that forgets to move the ray to the hit point
ApertureUpdate_KeepRay(r, res) == [ray |-> r, ior |-> R1]

\* lines 135-139: an aperture that lets the ray through
ApertureUpdate(r, res) == [ray |-> Ray(res.hitPos, r.direction), ior |-> R1]

\* lines 164-165: the reflection branch of a Lens that was hit
ReflectUpdate(r, i, res, next_ior) == [ok |-> TRUE, ray |-> r, ior |-> i]

\* lines 166-177: the refraction branch of a Lens that was hit
RefractUpdate(r, i, res, next_ior) ==
    LET rf == refract(VNeg(r.direction), res.hitNormal, i, next_ior)
    IN  IF ~rf.ok
        THEN [ok |-> FALSE, ray |-> r, ior |-> i]
        ELSE [ok |-> TRUE, ray |-> Ray(res.hitPos, rf.wt), ior |-> next_ior]

\* an exit that writes ray_out and then reports failure
ExitReturn_False(r) == [ray_out |-> r, ok |-> FALSE]

\* lines 184-186: the statements after the loop
ExitReturn(r) == [ray_out |-> r, ok |-> TRUE]

\* a computeCardinalPoints that does not look at what raytrace returned
ProbeFailed_Ignored(traced) == FALSE

\* lines 195 and 213: computeCardinalPoints gives up when a probe trace fails
ProbeFailed(traced) == ~traced

(* -------------------------------- state -------------------------------- *)
VARIABLES
    json,            \* the prescription file: entries in the order items() yields them
    fileOpens,       \* whether std::ifstream opens it
    phase,           \* "start", "cardinal", "ready", "exited"
    elements,        \* LensSystem::elements
    cardinal,        \* the six cardinal-point members
    ccp,             \* computeCardinalPoints: what it returned and how its probes ended
    pc,              \* raytrace: "idle", "loop" (in the while loop), "ret" (returned)
    caller,          \* who called raytrace: "probe1", "probe2", "user", "reverse"
    ray_in, reflection, ray_out,             \* raytrace's parameters
    element_index, ray, ior,                 \* raytrace's locals
    ok,              \* raytrace's return value
    outcome,         \* which return statement was taken
    visits,          \* elements visited by this call
    lastMove,        \* the index change of the latest iteration (0 before the first)
    turned,          \* some iteration moved the index against the one before it
    last,            \* what the latest iteration met and did
    ray_out_before,  \* ray_out as the caller passed it
    pairF, pairB,    \* per element: the (ior, next_ior) given to refract, by direction
    hits,            \* per element: the latest hit point and normal
    first_in,        \* the ray of the user call whose output is traced back
    at_call          \* elements and cardinal as they were when raytrace was entered

frame == << pc, caller, ray_in, reflection, ray_out, element_index, ray, ior, ok,
            outcome, visits, lastMove, turned, last, ray_out_before, at_call >>
hist  == << pairF, pairB, hits, first_in >>
sys   == << json, fileOpens, phase, elements, cardinal, ccp >>
vars  == << json, fileOpens, phase, elements, cardinal, ccp, pc, caller, ray_in,
            reflection, ray_out, element_index, ray, ior, ok, outcome, visits,
            lastMove, turned, last, ray_out_before, at_call, pairF, pairB, hits,
            first_in >>

Unset      == << 0, -1 >>                    \* a member no statement has assigned
DefaultRay == Ray(Vec(R0, R0), Vec(R0, R0))  \* Ray ray_out;
NoPair     == [set |-> FALSE, ior |-> R0, next_ior |-> R0]
NoRec      == [set |-> FALSE, hitPos |-> Vec(R0, R0), hitNormal |-> AxisNormal]
NoLast     == [kind |-> "none", idx |-> -1, hit |-> FALSE, hitPos |-> Vec(R0, R0),
               hitNormal |-> AxisNormal, rayBefore |-> DefaultRay, iorBefore |-> R0,
               next_ior |-> R0, refracted |-> FALSE]

CardinalUnset ==
    [object_focal_z |-> Unset, object_principal_z |-> Unset,
     object_focal_length |-> Unset, image_focal_z |-> Unset,
     image_principal_z |-> Unset, image_focal_length |-> Unset]

CcpNone == [returned |-> "none", probe1 |-> "none", probe2 |-> "none"]
Ended(traced) == IF traced THEN "succeeded" ELSE "failed"
NoCall  == [elements |-> << >>, cardinal |-> CardinalUnset]

height == << 1, 1000 >>                      \* const Real height = 0.001f

\* the rays a caller traces: from just in front of the first element (at the
\* probe height, along the axis and steeply across it, and along the axis
\* outside the clear radius) or from the image plane
Oblique    == Vec(<< 24, 25 >>, << 7, 25 >>)
FrontRays(es) ==
    {Ray(Vec(height, RSub(es[1].z, Milli)), Vec(R0, R1)),
     Ray(Vec(height, RSub(es[1].z, Milli)), Oblique),
     Ray(Vec(<< 16, 1000 >>, RSub(es[1].z, Milli)), Vec(R0, R1))}
BackRays(es) ==
    {Ray(Vec(height, R0), Vec(R0, << -1, 1 >>)),
     Ray(Vec(height, R0), VNeg(Oblique))}
\* the calls a caller makes: refracting for every ray, reflecting from the front
UserCalls(es) ==
    {[ray |-> r, reflection |-> FALSE] : r \in FrontRays(es) \cup BackRays(es)}
    \cup {[ray |-> r, reflection |-> TRUE] : r \in FrontRays(es)}

\* entry of raytrace (lines 119-121)
BeginCall(who, rin, refl, rout, es, card) ==
    /\ pc' = "loop"
    /\ caller' = who
    /\ ray_in' = rin
    /\ reflection' = refl
    /\ ray_out' = rout
    /\ ray_out_before' = rout
    /\ element_index' = StartIndex(rin, es)
    /\ ray' = rin
    /\ ior' = R1
    /\ ok' = FALSE
    /\ outcome' = "none"
    /\ visits' = 0
    /\ lastMove' = 0
    /\ turned' = FALSE
    /\ last' = NoLast
    /\ at_call' = [elements |-> es, cardinal |-> card]

\* no call of raytrace is in progress and none has left anything behind
FrameIdle ==
    /\ pc' = "idle"
    /\ caller' = "none"
    /\ ray_in' = DefaultRay
    /\ reflection' = FALSE
    /\ ray_out' = DefaultRay
    /\ ray_out_before' = DefaultRay
    /\ element_index' = 0
    /\ ray' = DefaultRay
    /\ ior' = R1
    /\ ok' = FALSE
    /\ outcome' = "none"
    /\ visits' = 0
    /\ lastMove' = 0
    /\ turned' = FALSE
    /\ last' = NoLast
    /\ at_call' = NoCall

HistReset(n) ==
    /\ pairF' = [i \in 1 .. n |-> NoPair]
    /\ pairB' = [i \in 1 .. n |-> NoPair]
    /\ hits'  = [i \in 1 .. n |-> NoRec]
    /\ first_in' = DefaultRay

InitFrom(files) ==
    /\ json \in files
    /\ fileOpens \in BOOLEAN
    /\ phase = "start"
    /\ elements = << >>
    /\ cardinal = CardinalUnset
    /\ ccp = CcpNone
    /\ pc = "idle" /\ caller = "none" /\ ray_in = DefaultRay /\ reflection = FALSE
    /\ ray_out = DefaultRay /\ ray_out_before = DefaultRay /\ element_index = 0
    /\ ray = DefaultRay /\ ior = R1 /\ ok = FALSE /\ outcome = "none"
    /\ visits = 0 /\ lastMove = 0 /\ turned = FALSE /\ last = NoLast
    /\ at_call = NoCall
    /\ pairF = << >> /\ pairB = << >> /\ hits = << >> /\ first_in = DefaultRay

\* construction from any prescription, and from a numbered one
InitLoad == InitFrom(Prescriptions)
Init     == InitFrom(Numbered)

(* LensSystem::LensSystem up to the first raytrace of computeCardinalPoints: *)
(* loadJSON (exit on failure), the z pass, and the object-side probe.        *)
Construct ==
    /\ phase = "start"
    /\ \E L \in loadJSON(json, fileOpens) :
          IF ~L.ok
          THEN /\ phase' = "exited"
               /\ elements' = L.elements
               /\ UNCHANGED << json, fileOpens, cardinal, ccp, frame, hist >>
          ELSE /\ elements' = AssignZ(L.elements)
               /\ phase' = "cardinal"
               /\ json' = << >>
               /\ BeginCall("probe1",
                            Ray(Vec(height, RSub(AssignZ(L.elements)[1].z, R1)),
                                Vec(R0, R1)),
                            FALSE, DefaultRay, AssignZ(L.elements), cardinal)
               /\ HistReset(Len(L.elements))
               /\ UNCHANGED << fileOpens, cardinal, ccp >>

\* a return statement of raytrace
Return(value, how) ==
    /\ pc' = "ret"
    /\ ok' = value
    /\ outcome' = how

(* One iteration of the while loop of raytrace (lines 123-182), with the     *)
(* statements after the loop (lines 184-186) when the iteration breaks.      *)
RaytraceStep ==
    /\ pc = "loop"
    /\ visits < MaxVisits
    /\ LET idx == AdvanceIndex(element_index, ray)
       IN
       /\ element_index' = idx
       /\ lastMove' = idx - element_index
       /\ turned' = (turned \/ (lastMove # 0 /\ lastMove # idx - element_index))
       /\ UNCHANGED << sys, caller, ray_in, reflection, ray_out_before, first_in,
                       at_call >>
       /\ IF PastEnd(idx, elements)
          THEN \* break; ray_out = ray; return true
               /\ ray_out' = ExitReturn(ray).ray_out
               /\ Return(ExitReturn(ray).ok, "exit")
               /\ last' = [NoLast EXCEPT !.kind = "exit", !.idx = idx,
                                         !.rayBefore = ray, !.iorBefore = ior]
               /\ UNCHANGED << ray, ior, visits, pairF, pairB, hits >>
          ELSE LET element == elements[idx + 1] IN
               /\ visits' = visits + 1
               /\ IF element.kind = "Aperture"
                  THEN LET res == ApertureIntersect(element, ray) IN
                       /\ last' = [NoLast EXCEPT !.kind = "Aperture", !.idx = idx,
                                      !.hit = res.ok, !.hitPos = res.hitPos,
                                      !.hitNormal = res.hitNormal,
                                      !.rayBefore = ray, !.iorBefore = ior]
                       /\ UNCHANGED << pairF, pairB, hits >>
                       /\ IF ~res.ok
                          THEN /\ Return(FALSE, "blocked")
                               /\ UNCHANGED << ray, ior, ray_out >>
                          ELSE /\ ray' = ApertureUpdate(ray, res).ray
                               /\ ior' = ApertureUpdate(ray, res).ior
                               /\ UNCHANGED << pc, ok, outcome, ray_out >>
                  ELSE IF element.kind = "Lens"
                  THEN LET next_ior == NextIor(idx, ray, elements) IN
                       \E res \in LensIntersect(element, ray, hits[idx + 1]) :
                       /\ last' = [NoLast EXCEPT !.kind = "Lens", !.idx = idx,
                                      !.hit = res.ok, !.hitPos = res.hitPos,
                                      !.hitNormal = res.hitNormal,
                                      !.rayBefore = ray, !.iorBefore = ior,
                                      !.next_ior = next_ior,
                                      !.refracted = (res.ok /\ ~reflection)]
                       /\ IF ~res.ok
                          THEN /\ Return(FALSE, "miss")
                               /\ UNCHANGED << ray, ior, ray_out, pairF, pairB, hits >>
                          ELSE /\ hits' = [hits EXCEPT ![idx + 1] =
                                             [set |-> TRUE, hitPos |-> res.hitPos,
                                              hitNormal |-> res.hitNormal]]
                               /\ IF reflection
                                  THEN LET up == ReflectUpdate(ray, ior, res, next_ior) IN
                                       /\ ray' = up.ray
                                       /\ ior' = up.ior
                                       /\ UNCHANGED << ray_out, pc, ok, outcome,
                                                       pairF, pairB >>
                                  ELSE /\ RefractExact(VNeg(ray.direction), res.hitNormal,
                                                       ior, next_ior)
                                       /\ LET up == RefractUpdate(ray, ior, res, next_ior)
                                              pr == [set |-> TRUE, ior |-> ior,
                                                     next_ior |-> next_ior]
                                          IN
                                          /\ IF RLt(R0, ray.direction.z)
                                             THEN /\ pairF' = [pairF EXCEPT ![idx + 1] = pr]
                                                  /\ pairB' = pairB
                                             ELSE /\ pairB' = [pairB EXCEPT ![idx + 1] = pr]
                                                  /\ pairF' = pairF
                                          /\ ray' = up.ray
                                          /\ ior' = up.ior
                                          /\ IF ~up.ok
                                             THEN /\ Return(FALSE, "tir")
                                                  /\ UNCHANGED ray_out
                                             ELSE UNCHANGED << pc, ok, outcome, ray_out >>
                  ELSE \* invalid lens element
                       /\ Return(FALSE, "invalid")
                       /\ last' = NoLast
                       /\ UNCHANGED << ray, ior, ray_out, pairF, pairB, hits >>

\* ray_out(t).z for t = -(ray_out.origin.y - h) / ray_out.direction.y
AxialZAt(r, h) ==
    LET t == FDiv(RNeg(RSub(r.origin.y, h)), r.direction.y)
    IN  FAdd(r.origin.z, FMul(t, r.direction.z))

\* lines 200-209
ImageCardinal(c, r) ==
    [c EXCEPT !.image_focal_z = AxialZAt(r, R0),
              !.image_principal_z = AxialZAt(r, height),
              !.image_focal_length = FSub(AxialZAt(r, R0), AxialZAt(r, height))]

\* lines 218-227
ObjectCardinal(c, r) ==
    [c EXCEPT !.object_focal_z = AxialZAt(r, R0),
              !.object_principal_z = AxialZAt(r, height),
              !.object_focal_length = FSub(AxialZAt(r, R0), AxialZAt(r, height))]

(* computeCardinalPoints after its first raytrace returns (lines 195-213):   *)
(* on failure it returns false and the constructor exits; otherwise it sets  *)
(* the image-side members and traces the image-side probe.                   *)
Probe1Return ==
    /\ pc = "ret" /\ caller = "probe1"
    /\ IF ProbeFailed(ok)
       THEN /\ ccp' = [returned |-> "false", probe1 |-> Ended(ok), probe2 |-> "none"]
            /\ phase' = "exited"
            /\ pc' = "idle"
            /\ UNCHANGED << json, fileOpens, elements, cardinal, caller, ray_in,
                            reflection, ray_out, element_index, ray, ior, ok, outcome,
                            visits, lastMove, turned, last, ray_out_before, at_call,
                            hist >>
       ELSE /\ cardinal' = ImageCardinal(cardinal, ray_out)
            /\ ccp' = [ccp EXCEPT !.probe1 = Ended(ok)]
            /\ BeginCall("probe2", Ray(Vec(height, R0), Vec(R0, << -1, 1 >>)),
                         FALSE, ray_out, elements, ImageCardinal(cardinal, ray_out))
            /\ UNCHANGED << json, fileOpens, phase, elements, hist >>

(* computeCardinalPoints after its second raytrace returns (lines 213-229),  *)
(* and the end of the constructor.                                           *)
Probe2Return ==
    /\ pc = "ret" /\ caller = "probe2"
    /\ IF ProbeFailed(ok)
       THEN /\ ccp' = [ccp EXCEPT !.returned = "false", !.probe2 = Ended(ok)]
            /\ phase' = "exited"
            /\ pc' = "idle"
            /\ UNCHANGED << json, fileOpens, elements, cardinal, caller, ray_in,
                            reflection, ray_out, element_index, ray, ior, ok, outcome,
                            visits, lastMove, turned, last, ray_out_before, at_call,
                            hist >>
       ELSE /\ cardinal' = ObjectCardinal(cardinal, ray_out)
            /\ ccp' = [ccp EXCEPT !.returned = "true", !.probe2 = Ended(ok)]
            /\ phase' = "ready"
            /\ FrameIdle
            /\ HistReset(Len(elements))
            /\ UNCHANGED << json, fileOpens, elements >>

(* A caller traces a ray through the constructed system. *)
UserTrace ==
    /\ phase = "ready" /\ pc = "idle"
    /\ \E c \in UserCalls(elements) :
          BeginCall("user", c.ray, c.reflection, DefaultRay, elements, cardinal)
    /\ UNCHANGED << sys, hist >>

(* The caller traces the output of a successful refracting call back:        *)
(* same origin, direction negated.                                           *)
ReverseTrace ==
    /\ phase = "ready" /\ pc = "ret" /\ caller = "user" /\ ok /\ ~reflection
    /\ BeginCall("reverse", Ray(ray_out.origin, VNeg(ray_out.direction)), FALSE,
                 ray_out, elements, cardinal)
    /\ first_in' = ray_in
    /\ UNCHANGED << sys, pairF, pairB, hits >>

(* The caller is done with the result of its call. *)
UserReturn ==
    /\ phase = "ready" /\ pc = "ret" /\ caller \in {"user", "reverse"}
    /\ FrameIdle
    /\ HistReset(Len(elements))
    /\ UNCHANGED sys

Next ==
    \/ Construct
    \/ RaytraceStep
    \/ Probe1Return
    \/ Probe2Return
    \/ UserTrace
    \/ ReverseTrace
    \/ UserReturn

Spec == Init /\ [][Next]_vars

\* the constructor alone, on every prescription
NextLoad ==
    \/ Construct
    \/ RaytraceStep
    \/ Probe1Return
    \/ Probe2Return

SpecLoad == InitLoad /\ [][NextLoad]_vars

(* ------------------------------ properties ---------------------------- *)
Constructed == phase \in {"cardinal", "ready"} \/ (phase = "exited" /\ elements # << >>)
InCall      == pc \in {"loop", "ret"}

\* C1: once the constructor has assigned z, the last element's z is minus its
\* thickness and every other element's z is the next element's z minus its
\* own thickness.
C1_ZChain ==
    Constructed =>
        LET n == Len(elements) IN
        /\ elements[n].z = RNeg(elements[n].thickness)
        /\ RAdd(elements[n].z, elements[n].thickness) = R0
        /\ \A i \in 1 .. (n - 1) :
              elements[i].z = RSub(elements[i + 1].z, elements[i].thickness)

C1_Witness ==
    /\ phase = "ready"
    /\ Len(elements) = 2
    /\ elements[1].thickness # elements[2].thickness

\* C2: a raytrace call visits at most elements.size() elements and its index
\* never moves against the direction of the iteration before.
C2_Bounded == InCall => (visits <= Len(elements) /\ ~turned)

\* the index that C3's claim reads the entered medium from: the next element
\* in the direction of travel
ClaimedNextIor(idx, r, es) ==
    LET j == IF RLt(R0, r.direction.z) THEN idx + 1 ELSE idx - 1
    IN  IF j >= 0 /\ j < Len(es) /\ es[j + 1].kind = "Lens" THEN es[j + 1].ior ELSE R1

\* C3 as stated: at a Lens the entered medium's ior is that of the next
\* element in the direction of travel if it exists and is a Lens, else 1.0.
C3_Original ==
    (InCall /\ last.kind = "Lens") =>
        last.next_ior = ClaimedNextIor(last.idx, last.rayBefore, elements)

\* C3 as amended: travelling toward increasing index (direction z > 0) the
\* entered medium's ior is the ior of the Lens being processed itself;
\* travelling toward decreasing index it is the ior of the element at index - 1
\* if that element exists and is a Lens, and 1.0 otherwise.
C3_Amended ==
    (InCall /\ last.kind = "Lens") =>
        IF RLt(R0, last.rayBefore.direction.z)
        THEN last.next_ior = elements[last.idx + 1].ior
        ELSE IF last.idx >= 1 /\ elements[last.idx].kind = "Lens"
             THEN last.next_ior = elements[last.idx].ior
             ELSE last.next_ior = R1

C3_Witness ==
    /\ InCall /\ last.kind = "Lens"
    /\ ~RLt(R0, last.rayBefore.direction.z)
    /\ last.idx >= 1 /\ elements[last.idx].kind = "Lens"
    /\ elements[last.idx].ior # elements[last.idx + 1].ior

\* two rays on one line with opposite directions
Cross(a, b) == RSub(RMul(a.y, b.z), RMul(a.z, b.y))
Coincident(back, orig) ==
    /\ back.direction = VNeg(orig.direction)
    /\ Cross(VAdd(back.origin, VNeg(orig.origin)), orig.direction) = R0

\* C4: tracing the output of a successful refracting trace back with its
\* direction negated succeeds and returns a ray coincident with the input
\* (read on the rays that went in toward the image side and came out so).
C4_RoundTrip ==
    (pc = "ret" /\ caller = "reverse" /\ RLt(R0, first_in.direction.z)
                /\ RLt(ray_in.direction.z, R0)) =>
        (ok /\ Coincident(ray_out, first_in))

\* C5: every constructed stack has pairwise distinct, strictly ascending
\* indices (a prescription with a repeated index is not constructed).
C5_DistinctIndices ==
    Constructed =>
        \A i, j \in 1 .. Len(elements) : i < j => elements[i].index < elements[j].index

\* C6: an Aperture that is hit leaves the direction alone, moves the origin to
\* the hit point and sets the tracked ior to 1.0; one that is missed makes
\* raytrace return false there, the ray and ray_out untouched.
C6_Aperture ==
    (InCall /\ last.kind = "Aperture") =>
        /\ last.idx = element_index
        /\ IF last.hit
           THEN /\ pc = "loop"
                /\ ray.direction = last.rayBefore.direction
                /\ ray.origin = last.hitPos
                /\ ior = R1
           ELSE /\ pc = "ret" /\ ~ok /\ outcome = "blocked"
                /\ ray = last.rayBefore

C6_Witness ==
    /\ InCall /\ last.kind = "Aperture" /\ last.hit
    /\ last.iorBefore # R1
    /\ last.rayBefore.origin # last.hitPos

\* C7: computeCardinalPoints returns false exactly when a probe trace failed,
\* the constructor then exits, and a system that callers can use has all six
\* members computed from two successful probe traces.
C7_Cardinal ==
    /\ (ccp.returned = "false") <=> (ccp.probe1 = "failed" \/ ccp.probe2 = "failed")
    /\ (ccp.returned = "false") => phase = "exited"
    /\ ccp.probe1 = "failed" => ccp.probe2 = "none"
    /\ phase = "ready" =>
          /\ ccp = [returned |-> "true", probe1 |-> "succeeded", probe2 |-> "succeeded"]
          /\ \A f \in DOMAIN cardinal : cardinal[f] # Unset

C7_Witness ==
    /\ phase = "exited"
    /\ ccp.probe1 = "succeeded" /\ ccp.probe2 = "failed"

\* C8: a call that has returned took exactly one of the four ways out, wrote
\* ray_out only when it left past an end of the stack, and while it runs the
\* elements and the cardinal members stay as they were at its entry.
C8_Outcome ==
    /\ InCall => (elements = at_call.elements /\ cardinal = at_call.cardinal)
    /\ pc = "loop" => (outcome = "none" /\ ray_out = ray_out_before)
    /\ pc = "ret" =>
          /\ outcome \in {"exit", "blocked", "miss", "tir"}
          /\ ok <=> outcome = "exit"
          /\ outcome = "exit" =>
                (PastEnd(element_index, elements) /\ last.kind = "exit" /\ ray_out = ray)
          /\ outcome = "blocked" => (last.kind = "Aperture" /\ ~last.hit)
          /\ outcome = "miss" => (last.kind = "Lens" /\ ~last.hit)
          /\ outcome = "tir" => (last.kind = "Lens" /\ last.hit /\ last.refracted)
          /\ ~ok => ray_out = ray_out_before

C8_Witness ==
    /\ pc = "ret" /\ outcome = "tir"
    /\ ray_out # DefaultRay

\* C9: with reflection requested, a Lens that is hit replaces the direction by
\* its mirror image about the normal and the origin by the hit point.
C9_Reflect ==
    (InCall /\ reflection /\ last.kind = "Lens" /\ last.hit) =>
        /\ ray.direction = reflect(VNeg(last.rayBefore.direction), last.hitNormal)
        /\ ray.origin = last.hitPos
        /\ ray # last.rayBefore

\* C10: at a Lens both directions of travel have refracted at, the pair
\* (tracked ior, entered ior) of the walk toward decreasing index is the swap
\* of the pair of the walk toward increasing index.
C10_Swap ==
    \A i \in 1 .. Len(pairF) :
        (pairF[i].set /\ pairB[i].set) =>
            (pairB[i].ior = pairF[i].next_ior /\ pairB[i].next_ior = pairF[i].ior)

====
